---- MODULE Spec2Model ----
(***************************************************************************)
(* simple-cam: a libcamera capture example (src/simple-cam.cpp).           *)
(*                                                                         *)
(* Two threads are modelled.  The application ("consumer") thread runs     *)
(* main(): it sets the camera up, queues the requests, runs the event loop *)
(* (which dispatches processRequest) and tears everything down.  The       *)
(* CameraManager ("producer") thread completes or cancels queued requests  *)
(* and emits Camera::requestCompleted, whose slot is requestComplete.      *)
(*                                                                         *)
(* The camera is libcamera's: it is modelled by its access state           *)
(* (Available -> Acquired -> Configured -> Running) and refuses the        *)
(* operations its state does not allow.  The EventLoop (event_loop.h) is   *)
(* not part of src/: it is modelled from the specification as a FIFO of    *)
(* deferred calls plus a one-shot timeout.                                 *)
(***************************************************************************)
EXTENDS Integers, Sequences, FiniteSets, TLC

\* Largest number of buffers the allocator hands out for the stream.
MaxBuffers == 3

\* Largest number of completion notifications the camera raises in a run.
MaxNotify == 4

\* Largest exit code a terminating condition hands to the event loop.
MaxExitCode == 2

\* Largest number of cameras the camera manager lists.
MaxCameras == 2

VARIABLES
    pc,           \* position of main()
    cmState,      \* CameraManager: "stopped" | "running"
    camState,     \* Camera access state
    acquireRet,   \* result of camera->acquire()      ("none" | "ok" | "fail")
    configureRet, \* result of camera->configure()    ("none" | "ok" | "fail")
    startRet,     \* result of camera->start()        ("none" | "ok" | "fail")
    allocator,    \* FrameBufferAllocator: "none" | "live" | "deleted"
    allocRet,     \* result of allocator->allocate(): -2 = not called, -1 = error
    nbuffers,     \* allocator->buffers(stream).size()
    requests,     \* std::vector<std::unique_ptr<Request>> requests
    calls,        \* EventLoop's queue of deferred calls (request indices)
    inHandler,    \* request processRequest is working on, 0 = none
    handled,      \* what each processRequest invocation saw, in order
    oplog,        \* reuse / queueRequest calls, in order, with their thread
    notified,     \* requestCompleted emissions, in order
    exitAt,       \* which return statement main() left through
    exitStatus,   \* main()'s return value
    loopRet,      \* loop.exec()'s return value, -1 = has not returned
    qi,           \* number of requests the start-up loop has queued
    timer,        \* the loop's one-shot timeout: "unarmed" | "armed" | "fired"
    tdlog,        \* clean-up calls main() has made, in order
    catalog,      \* cm->cameras(): properties and ids (followed in SpecName)
    names         \* the names main() has listed, one per camera, in order

vars == <<pc, cmState, camState, acquireRet, configureRet, startRet, allocator,
          allocRet, nbuffers, requests, calls, inHandler, handled, oplog,
          notified, exitAt, exitStatus, loopRet, qi, timer, tdlog,
          catalog, names>>

----------------------------------------------------------------------------
(* Requests and the completion path.  The operators below work on a       *)
(* record w of the fields the completion path touches, so that the slot   *)
(* and the handler compose the way the calls in the code do.              *)

World == [requests |-> requests, calls |-> calls, handled |-> handled,
          oplog |-> oplog, cam |-> camState]

\* A Request as camera->createRequest() returns it.
NewRequest == [status |-> "Idle", buffers |-> <<>>, metadata |-> FALSE]

\* request->addBuffer(stream, buffer)
addBuffer(req, b) == [req EXCEPT !.buffers = Append(@, b)]

\* Variant of bufferFor: every request is given buffers[0].
bufferFor_First(i) == 1

\* buffers[i]: the buffer the i-th request gets
bufferFor(i) == i

\* request->reuse(flags)
reuse(req, flags) ==
    [status |-> "Idle",
     buffers |-> IF flags = "ReuseBuffers" THEN req.buffers ELSE <<>>,
     metadata |-> FALSE]

\* camera->queueRequest(request), called on `thread`.  The camera takes the
\* request only while running, and only a pending request that has a buffer.
queueRequest(w, r, thread) ==
    LET req == w.requests[r]
        ok  == w.cam = "Running" /\ req.status = "Idle" /\ req.buffers # <<>>
    IN [w EXCEPT
          !.oplog = Append(@, [op |-> "queueRequest", req |-> r,
                               thread |-> thread, cam |-> w.cam,
                               from |-> req.status, ok |-> ok]),
          !.requests[r].status = IF ok THEN "Queued" ELSE @]

\* EventLoop::callLater: append to the queue of deferred calls.
callLater(w, r) == [w EXCEPT !.calls = Append(@, r)]

\* Variant of processRequestReuse: request->reuse() without ReuseBuffers.
processRequestReuse_NoFlag(w, r, thread) ==
    LET req == w.requests[r]
    IN [w EXCEPT
          !.handled = Append(@, [req |-> r, status |-> req.status,
                                 metadata |-> req.metadata,
                                 buffers |-> req.buffers]),
          !.oplog = Append(@, [op |-> "reuse", req |-> r, thread |-> thread,
                               cam |-> w.cam, from |-> req.status,
                               ok |-> TRUE]),
          !.requests[r] = reuse(req, "Default")]

\* Variant of processRequestReuse: the request is not reused before it is
\* queued again.
processRequestReuse_NoReuse(w, r, thread) ==
    LET req == w.requests[r]
    IN [w EXCEPT
          !.handled = Append(@, [req |-> r, status |-> req.status,
                                 metadata |-> req.metadata,
                                 buffers |-> req.buffers])]

\* processRequest up to and including request->reuse(Request::ReuseBuffers)
processRequestReuse(w, r, thread) ==
    LET req == w.requests[r]
    IN [w EXCEPT
          !.handled = Append(@, [req |-> r, status |-> req.status,
                                 metadata |-> req.metadata,
                                 buffers |-> req.buffers]),
          !.oplog = Append(@, [op |-> "reuse", req |-> r, thread |-> thread,
                               cam |-> w.cam, from |-> req.status,
                               ok |-> TRUE]),
          !.requests[r] = reuse(req, "ReuseBuffers")]

\* processRequest's last statement: camera->queueRequest(request)
processRequestQueue(w, r, thread) == queueRequest(w, r, thread)

\* processRequest as one call
processRequest(w, r, thread) ==
    processRequestQueue(processRequestReuse(w, r, thread), r, thread)

\* Variant of requestComplete: a request is not deferred while another call
\* is still waiting in the loop.
requestComplete_Coalesce(w, r) ==
    IF w.requests[r].status = "Cancelled" \/ w.calls # <<>>
    THEN w
    ELSE callLater(w, r)

\* Variant of requestComplete: the slot processes the request itself.
requestComplete_Direct(w, r) ==
    IF w.requests[r].status = "Cancelled"
    THEN w
    ELSE processRequest(w, r, "producer")

\* Variant of requestComplete: no test of the request's status.
requestComplete_NoCheck(w, r) == callLater(w, r)

\* The slot connected to Camera::requestCompleted; runs on the producer thread.
requestComplete(w, r) ==
    IF w.requests[r].status = "Cancelled"
    THEN w
    ELSE callLater(w, r)

\* Write a World back to the variables.
Commit(w) ==
    /\ requests' = w.requests
    /\ calls' = w.calls
    /\ handled' = w.handled
    /\ oplog' = w.oplog

----------------------------------------------------------------------------
Init ==
    /\ pc = "init"
    /\ cmState = "stopped"
    /\ camState = "Available"
    /\ acquireRet = "none"
    /\ configureRet = "none"
    /\ startRet = "none"
    /\ allocator = "none"
    /\ allocRet = -2
    /\ nbuffers = 0
    /\ requests = <<>>
    /\ calls = <<>>
    /\ inHandler = 0
    /\ handled = <<>>
    /\ oplog = <<>>
    /\ notified = <<>>
    /\ exitAt = "none"
    /\ exitStatus = "none"
    /\ loopRet = -1
    /\ qi = 0
    /\ timer = "unarmed"
    /\ tdlog = <<>>
    /\ catalog = <<>>
    /\ names = <<>>

\* return EXIT_FAILURE / EXIT_SUCCESS from main()
Return(where, status) ==
    /\ pc' = "done"
    /\ exitAt' = where
    /\ exitStatus' = status

\* Variant of NoCameras: the return without cm->stop().
NoCameras_NoStop ==
    /\ pc = "init"
    /\ cmState' = "running"
    /\ Return("nocamera", "EXIT_FAILURE")
    /\ UNCHANGED <<camState, acquireRet, configureRet, startRet, allocator,
                   allocRet, nbuffers, requests, calls, inHandler, handled,
                   oplog, notified, loopRet, qi, timer, tdlog, catalog, names>>

\* cm->start(); cm->cameras().empty(): cm->stop(); return EXIT_FAILURE
NoCameras ==
    /\ pc = "init"
    /\ cmState' = "stopped"
    /\ Return("nocamera", "EXIT_FAILURE")
    /\ UNCHANGED <<camState, acquireRet, configureRet, startRet, allocator,
                   allocRet, nbuffers, requests, calls, inHandler, handled,
                   oplog, notified, loopRet, qi, timer, tdlog, catalog, names>>

\* cm->start(); camera = cm->get(cameraId); camera->acquire();
\* the result of acquire() is not looked at.
Acquire ==
    /\ pc = "init"
    /\ cmState' = "running"
    /\ \E ok \in BOOLEAN :
         /\ acquireRet' = IF ok THEN "ok" ELSE "fail"
         /\ camState' = IF ok THEN "Acquired" ELSE camState
    /\ pc' = "configure"
    /\ UNCHANGED <<configureRet, startRet, allocator, allocRet, nbuffers,
                   requests, calls, inHandler, handled, oplog, notified,
                   exitAt, exitStatus, loopRet, qi, timer, tdlog,
                   catalog, names>>

\* generateConfiguration, validate, camera->configure(config.get());
\* the result of configure() is not looked at.
Configure ==
    /\ pc = "configure"
    /\ \E accept \in BOOLEAN :
         LET ok == camState = "Acquired" /\ accept
         IN /\ configureRet' = IF ok THEN "ok" ELSE "fail"
            /\ camState' = IF ok THEN "Configured" ELSE camState
    /\ pc' = "allocate"
    /\ UNCHANGED <<cmState, acquireRet, startRet, allocator, allocRet,
                   nbuffers, requests, calls, inHandler, handled, oplog,
                   notified, exitAt, exitStatus, loopRet, qi, timer, tdlog,
                   catalog, names>>

\* new FrameBufferAllocator(camera); allocator->allocate(cfg.stream());
\* ret < 0 returns EXIT_FAILURE.  A camera that is not configured exports
\* no buffers.
Allocate ==
    /\ pc = "allocate"
    /\ allocator' = "live"
    /\ \E ret \in -1 .. MaxBuffers :
         /\ camState # "Configured" => ret = -1
         /\ allocRet' = ret
         /\ IF ret < 0
            THEN /\ Return("allocate", "EXIT_FAILURE")
                 /\ UNCHANGED nbuffers
            ELSE /\ nbuffers' = ret
                 /\ pc' = "requests"
                 /\ UNCHANGED <<exitAt, exitStatus>>
    /\ UNCHANGED <<cmState, camState, acquireRet, configureRet, startRet,
                   requests, calls, inHandler, handled, oplog, notified,
                   loopRet, qi, timer, tdlog, catalog, names>>

\* One iteration of the request loop: createRequest, addBuffer, push_back.
PrepareRequest ==
    /\ pc = "requests"
    /\ Len(requests) < nbuffers
    /\ \E outcome \in {"ok", "nocreate", "noadd"} :
         CASE outcome = "ok" ->
                /\ requests' = Append(requests,
                       addBuffer(NewRequest, bufferFor(Len(requests) + 1)))
                /\ UNCHANGED <<pc, exitAt, exitStatus>>
           [] outcome = "nocreate" ->
                /\ Return("createRequest", "EXIT_FAILURE")
                /\ UNCHANGED requests
           [] outcome = "noadd" ->
                /\ Return("addBuffer", "EXIT_FAILURE")
                /\ UNCHANGED requests
    /\ UNCHANGED <<cmState, camState, acquireRet, configureRet, startRet,
                   allocator, allocRet, nbuffers, calls, inHandler, handled,
                   oplog, notified, loopRet, qi, timer, tdlog, catalog, names>>

\* The request loop ends; requestCompleted.connect(requestComplete);
\* camera->start(); the result of start() is not looked at.
Start ==
    /\ pc = "requests"
    /\ Len(requests) = nbuffers
    /\ \E accept \in BOOLEAN :
         LET ok == camState = "Configured" /\ accept
         IN /\ startRet' = IF ok THEN "ok" ELSE "fail"
            /\ camState' = IF ok THEN "Running" ELSE camState
    /\ pc' = "queue"
    /\ UNCHANGED <<cmState, acquireRet, configureRet, allocator, allocRet,
                   nbuffers, requests, calls, inHandler, handled, oplog,
                   notified, exitAt, exitStatus, loopRet, qi, timer, tdlog,
                   catalog, names>>

\* for (request : requests) camera->queueRequest(request.get()): one call
QueueInitial ==
    /\ pc = "queue"
    /\ qi < Len(requests)
    /\ Commit(queueRequest(World, qi + 1, "consumer"))
    /\ qi' = qi + 1
    /\ UNCHANGED <<pc, cmState, camState, acquireRet, configureRet, startRet,
                   allocator, allocRet, nbuffers, inHandler, notified, exitAt,
                   exitStatus, loopRet, timer, tdlog, catalog,
                   names>>

\* Variant of LoopEnter: loop.exec() is entered without loop.timeout().
LoopEnter_NoTimer ==
    /\ pc = "queue"
    /\ qi = Len(requests)
    /\ pc' = "exec"
    /\ UNCHANGED <<cmState, camState, acquireRet, configureRet, startRet,
                   allocator, allocRet, nbuffers, requests, calls, inHandler,
                   handled, oplog, notified, exitAt, exitStatus, loopRet, qi,
                   timer, tdlog, catalog, names>>

\* The start-up loop ends; loop.timeout(TIMEOUT_SEC); loop.exec() is entered.
LoopEnter ==
    /\ pc = "queue"
    /\ qi = Len(requests)
    /\ pc' = "exec"
    /\ timer' = "armed"
    /\ UNCHANGED <<cmState, camState, acquireRet, configureRet, startRet,
                   allocator, allocRet, nbuffers, requests, calls, inHandler,
                   handled, oplog, notified, exitAt, exitStatus, loopRet, qi,
                   tdlog, catalog, names>>

\* The event loop takes the head of its queue and runs it: processRequest,
\* up to and including reuse.
DispatchCall ==
    /\ pc = "exec"
    /\ inHandler = 0
    /\ calls # <<>>
    /\ LET r == Head(calls)
       IN /\ Commit(processRequestReuse([World EXCEPT !.calls = Tail(@)],
                                        r, "consumer"))
          /\ inHandler' = r
    /\ UNCHANGED <<pc, cmState, camState, acquireRet, configureRet, startRet,
                   allocator, allocRet, nbuffers, notified, exitAt, exitStatus,
                   loopRet, qi, timer, tdlog, catalog, names>>

\* processRequest's camera->queueRequest(request); the call returns.
RequeueCall ==
    /\ pc = "exec"
    /\ inHandler # 0
    /\ Commit(processRequestQueue(World, inHandler, "consumer"))
    /\ inHandler' = 0
    /\ UNCHANGED <<pc, cmState, camState, acquireRet, configureRet, startRet,
                   allocator, allocRet, nbuffers, notified, exitAt, exitStatus,
                   loopRet, qi, timer, tdlog, catalog, names>>

\* The one-shot timeout elapses between two callbacks: exec() returns 0,
\* whatever is still queued.
Timeout ==
    /\ pc = "exec"
    /\ timer = "armed"
    /\ inHandler = 0
    /\ loopRet' = 0
    /\ pc' = "stop"
    /\ timer' = "fired"
    /\ UNCHANGED <<cmState, camState, acquireRet, configureRet, startRet,
                   allocator, allocRet, nbuffers, requests, calls, inHandler,
                   handled, oplog, notified, exitAt, exitStatus, qi, tdlog,
                   catalog, names>>

----------------------------------------------------------------------------
(* The camera, on the producer thread. *)

\* Emit requestCompleted for request r, whose status the camera has set.
RECURSIVE EmitAll(_, _)
EmitAll(w, rs) ==
    IF rs = <<>> THEN w
    ELSE EmitAll(requestComplete(w, Head(rs)), Tail(rs))

\* The camera completes a queued request and emits requestCompleted.
DeviceComplete(r) ==
    /\ camState = "Running"
    /\ requests[r].status = "Queued"
    /\ Len(notified) < MaxNotify
    /\ notified' = Append(notified, [req |-> r, status |-> "Completed"])
    /\ Commit(requestComplete(
           [World EXCEPT !.requests[r].status = "Completed",
                         !.requests[r].metadata = TRUE], r))
    /\ UNCHANGED <<pc, cmState, camState, acquireRet, configureRet, startRet,
                   allocator, allocRet, nbuffers, inHandler, exitAt,
                   exitStatus, loopRet, qi, timer, tdlog, catalog, names>>

\* The camera cancels a queued request and emits requestCompleted.
DeviceCancel(r) ==
    /\ camState = "Running"
    /\ requests[r].status = "Queued"
    /\ Len(notified) < MaxNotify
    /\ notified' = Append(notified, [req |-> r, status |-> "Cancelled"])
    /\ Commit(requestComplete(
           [World EXCEPT !.requests[r].status = "Cancelled"], r))
    /\ UNCHANGED <<pc, cmState, camState, acquireRet, configureRet, startRet,
                   allocator, allocRet, nbuffers, inHandler, exitAt,
                   exitStatus, loopRet, qi, timer, tdlog, catalog, names>>

----------------------------------------------------------------------------
(* Clean up, at the end of main(). *)

\* The queued requests, in index order.
RECURSIVE QueuedFrom(_, _)
QueuedFrom(reqs, i) ==
    IF i > Len(reqs) THEN <<>>
    ELSE IF reqs[i].status = "Queued"
         THEN <<i>> \o QueuedFrom(reqs, i + 1)
         ELSE QueuedFrom(reqs, i + 1)

\* Variant of CameraStop: the clean-up goes on without camera->stop().
CameraStop_NoStop ==
    /\ pc = "stop"
    /\ pc' = "free"
    /\ UNCHANGED <<cmState, camState, acquireRet, configureRet, startRet,
                   allocator, allocRet, nbuffers, requests, calls, inHandler,
                   handled, oplog, notified, exitAt, exitStatus, loopRet, qi,
                   timer, tdlog, catalog, names>>

\* camera->stop(): the camera cancels what is still queued, emitting
\* requestCompleted for each, and leaves the running state.
CameraStop ==
    /\ pc = "stop"
    /\ LET q == QueuedFrom(requests, 1)
           cancelled == [i \in 1 .. Len(requests) |->
                            IF requests[i].status = "Queued"
                            THEN [requests[i] EXCEPT !.status = "Cancelled"]
                            ELSE requests[i]]
       IN /\ Commit(EmitAll([World EXCEPT !.requests = cancelled], q))
          /\ notified' = notified \o
                 [k \in 1 .. Len(q) |-> [req |-> q[k], status |-> "Cancelled"]]
    /\ camState' = IF camState = "Running" THEN "Configured" ELSE camState
    /\ pc' = "free"
    /\ tdlog' = Append(tdlog, "stop")
    /\ UNCHANGED <<cmState, acquireRet, configureRet, startRet, allocator,
                   allocRet, nbuffers, inHandler, exitAt, exitStatus, loopRet,
                   qi, timer, catalog, names>>

\* allocator->free(stream); delete allocator;
AllocatorFree ==
    /\ pc = "free"
    /\ allocator' = "deleted"
    /\ nbuffers' = 0
    /\ pc' = "release"
    /\ tdlog' = Append(tdlog, "free")
    /\ UNCHANGED <<cmState, camState, acquireRet, configureRet, startRet,
                   allocRet, requests, calls, inHandler, handled, oplog,
                   notified, exitAt, exitStatus, loopRet, qi, timer,
                   catalog, names>>

\* camera->release(); camera.reset();
CameraRelease ==
    /\ pc = "release"
    /\ camState' = IF camState \in {"Acquired", "Configured"}
                   THEN "Available" ELSE camState
    /\ pc' = "cmstop"
    /\ tdlog' = Append(tdlog, "release")
    /\ UNCHANGED <<cmState, acquireRet, configureRet, startRet, allocator,
                   allocRet, nbuffers, requests, calls, inHandler, handled,
                   oplog, notified, exitAt, exitStatus, loopRet, qi, timer,
                   catalog, names>>

\* main()'s return value once loop.exec() has returned ret: ret is printed,
\* and the return statement is return EXIT_SUCCESS.
mainStatus(ret) == "EXIT_SUCCESS"

\* cm->stop(); return EXIT_SUCCESS;
CmStop ==
    /\ pc = "cmstop"
    /\ cmState' = "stopped"
    /\ Return("end", mainStatus(loopRet))
    /\ tdlog' = Append(tdlog, "cmstop")
    /\ UNCHANGED <<camState, acquireRet, configureRet, startRet, allocator,
                   allocRet, nbuffers, requests, calls, inHandler, handled,
                   oplog, notified, loopRet, qi, timer, catalog, names>>

----------------------------------------------------------------------------
Next ==
    \/ NoCameras
    \/ Acquire
    \/ Configure
    \/ Allocate
    \/ PrepareRequest
    \/ Start
    \/ QueueInitial
    \/ LoopEnter
    \/ DispatchCall
    \/ RequeueCall
    \/ Timeout
    \/ \E r \in 1 .. Len(requests) : DeviceComplete(r)
    \/ \E r \in 1 .. Len(requests) : DeviceCancel(r)
    \/ CameraStop
    \/ AllocatorFree
    \/ CameraRelease
    \/ CmStop

Spec == Init /\ [][Next]_vars

\* The steps of main() and of the callbacks the loop runs, the timeout aside.
MainStep ==
    \/ NoCameras
    \/ Acquire
    \/ Configure
    \/ Allocate
    \/ PrepareRequest
    \/ Start
    \/ QueueInitial
    \/ LoopEnter
    \/ DispatchCall
    \/ RequeueCall
    \/ CameraStop
    \/ AllocatorFree
    \/ CameraRelease
    \/ CmStop

\* The application thread keeps running, every callback returns, and the
\* armed timeout is served between two callbacks however many are pending.
FairSpec == Spec /\ WF_vars(MainStep) /\ SF_vars(Timeout)

----------------------------------------------------------------------------
(* A camera that breaks the protocol: it emits requestCompleted a second   *)
(* time for a completed request whose call is still waiting in the loop.   *)

DeviceDuplicate(r) ==
    /\ camState = "Running"
    /\ requests[r].status = "Completed"
    /\ \E j \in 1 .. Len(calls) : calls[j] = r
    /\ Len(notified) < MaxNotify
    /\ notified' = Append(notified, [req |-> r, status |-> "Completed"])
    /\ Commit(requestComplete(World, r))
    /\ UNCHANGED <<pc, cmState, camState, acquireRet, configureRet, startRet,
                   allocator, allocRet, nbuffers, inHandler, exitAt,
                   exitStatus, loopRet, qi, timer, tdlog, catalog, names>>

NextDup ==
    \/ Next
    \/ \E r \in 1 .. Len(requests) : DeviceDuplicate(r)

SpecDup == Init /\ [][NextDup]_vars

----------------------------------------------------------------------------
(* Camera naming.  A name is the sequence of the pieces the code           *)
(* concatenates.  SpecName follows main()'s listing loop over every        *)
(* catalogue of up to MaxCameras cameras.                                  *)

\* A camera's properties::Location and properties::Model ("none" = the
\* property is absent) and its id.
Cameras ==
    [location : {"none", "Front", "Back", "External"},
     model : {"none", "M1"},
     id : {"id0", "id1"}]

Catalogs ==
    UNION {[1 .. n -> Cameras] : n \in 0 .. MaxCameras}

\* std::string cameraName(Camera *camera)
cameraName(cam) ==
    LET base ==
          CASE cam.location = "Front" -> <<"Internal front camera">>
            [] cam.location = "Back" -> <<"Internal back camera">>
            [] cam.location = "External" ->
                 IF cam.model # "none"
                 THEN <<" '", cam.model, "'">>
                 ELSE <<"External camera">>
            [] OTHER -> <<>>
    IN base \o <<" (", cam.id, ")">>

InitName ==
    /\ catalog \in Catalogs
    /\ pc = "init"
    /\ cmState = "stopped"
    /\ camState = "Available"
    /\ acquireRet = "none"
    /\ configureRet = "none"
    /\ startRet = "none"
    /\ allocator = "none"
    /\ allocRet = -2
    /\ nbuffers = 0
    /\ requests = <<>>
    /\ calls = <<>>
    /\ inHandler = 0
    /\ handled = <<>>
    /\ oplog = <<>>
    /\ notified = <<>>
    /\ exitAt = "none"
    /\ exitStatus = "none"
    /\ loopRet = -1
    /\ qi = 0
    /\ timer = "unarmed"
    /\ tdlog = <<>>
    /\ names = <<>>

\* for (camera : cm->cameras()) cout << cameraName(camera.get()): one camera
ListCamera ==
    /\ pc = "init"
    /\ Len(names) < Len(catalog)
    /\ names' = Append(names, cameraName(catalog[Len(names) + 1]))
    /\ UNCHANGED <<pc, cmState, camState, acquireRet, configureRet, startRet,
                   allocator, allocRet, nbuffers, requests, calls, inHandler,
                   handled, oplog, notified, exitAt, exitStatus, loopRet, qi,
                   timer, tdlog, catalog>>

NextName == ListCamera

SpecName == InitName /\ [][NextName]_vars

----------------------------------------------------------------------------
(* An event loop that is asked to stop with a non-zero code (EventLoop's   *)
(* exit(code), or a fatal error signalled to it): exec() returns that code *)
(* once the running callback has finished.                                 *)

LoopExit(code) ==
    /\ pc = "exec"
    /\ inHandler = 0
    /\ loopRet' = code
    /\ pc' = "stop"
    /\ UNCHANGED <<cmState, camState, acquireRet, configureRet, startRet,
                   allocator, allocRet, nbuffers, requests, calls, inHandler,
                   handled, oplog, notified, exitAt, exitStatus, qi, timer,
                   tdlog, catalog, names>>

NextLoopExit ==
    \/ Next
    \/ \E code \in 1 .. MaxExitCode : LoopExit(code)

SpecLoopExit == Init /\ [][NextLoopExit]_vars

----------------------------------------------------------------------------
(* Properties. *)

\* The req fields of the entries of s that carry the given status, in order.
ReqsOf(s, status) ==
    LET sel == SelectSeq(s, LAMBDA e : e.status = status)
    IN [k \in 1 .. Len(sel) |-> sel[k].req]

\* How many times x occurs in sequence s.
Count(s, x) == Cardinality({k \in 1 .. Len(s) : s[k] = x})

\* The camera has emitted requestCompleted for r with the given status.
Notified(r, status) ==
    \E k \in 1 .. Len(notified) :
        notified[k] = [req |-> r, status |-> status]

\* C1: the requests processRequest has been invoked for, followed by the
\* calls still waiting in the loop, are exactly the requests notified as
\* completed, in the order of the notifications: each is dispatched once, in
\* arrival order, none reordered, merged or skipped over.
C1_Fifo ==
    ReqsOf(notified, "Completed") =
        [k \in 1 .. Len(handled) |-> handled[k].req] \o calls

\* C1 witness: two completions notified out of index order (2 then 1) and
\* both handled.
C1_Witness ==
    /\ Len(handled) >= 2
    /\ handled[1].req = 2
    /\ handled[2].req = 1
    /\ Len(notified) >= 2

\* C2: every reuse and every queueRequest call is made on the consumer
\* thread; the producer thread's slot makes none.
C2_NoProducerTransition ==
    \A k \in 1 .. Len(oplog) : oplog[k].thread = "consumer"

\* C2 witness: the producer has notified a completion, and the request has
\* been reused and queued again since.
C2_Witness ==
    /\ \E k \in 1 .. Len(notified) : notified[k].status = "Completed"
    /\ \E k \in 1 .. Len(oplog) : oplog[k].op = "reuse"
    /\ \E k \in 1 .. Len(oplog) :
          oplog[k].op = "queueRequest" /\ oplog[k].from = "Idle"
          /\ k > qi

\* C3: the handler sees a Completed request with its metadata, reuse leaves
\* it Idle with metadata cleared and the same single buffer bound, and the
\* queueRequest that follows is accepted and makes it Queued; every request
\* keeps exactly the buffer it was built with, however often it cycles.
C3_Cycle ==
    /\ \A r \in 1 .. Len(requests) : requests[r].buffers = <<r>>
    /\ \A k \in 1 .. Len(handled) :
          /\ handled[k].status = "Completed"
          /\ handled[k].metadata
          /\ handled[k].buffers = <<handled[k].req>>
    /\ inHandler # 0 =>
          /\ handled[Len(handled)].req = inHandler
          /\ requests[inHandler].status = "Idle"
          /\ ~requests[inHandler].metadata
    /\ \A k \in 1 .. Len(oplog) :
          oplog[k].op = "reuse" =>
             \/ k = Len(oplog) /\ inHandler = oplog[k].req
             \/ /\ k < Len(oplog)
                /\ oplog[k + 1].op = "queueRequest"
                /\ oplog[k + 1].req = oplog[k].req
                /\ oplog[k + 1].from = "Idle"
                /\ oplog[k + 1].ok
    /\ \A r \in 1 .. Len(requests) :
          (/\ oplog # <<>>
           /\ oplog[Len(oplog)].op = "queueRequest"
           /\ oplog[Len(oplog)].req = r
           /\ oplog[Len(oplog)].ok
           /\ ~Notified(r, "Cancelled")
           /\ Count(ReqsOf(notified, "Completed"), r)
                = Count([k \in 1 .. Len(handled) |-> handled[k].req], r))
          => requests[r].status = "Queued"

\* C3 witness: request 1 has been through the cycle twice and is queued again.
C3_Witness ==
    /\ Count([k \in 1 .. Len(handled) |-> handled[k].req], 1) >= 2
    /\ inHandler = 0
    /\ requests[1].status = "Queued"

\* The request indices processRequest has been invoked for, in order.
HandledReqs == [k \in 1 .. Len(handled) |-> handled[k].req]

C5_NoResubmitAfterCancel ==
    [][\A k \in 1 .. Len(oplog') :
          (k > Len(oplog) /\ oplog'[k].op = "queueRequest")
             => ~Notified(oplog'[k].req, "Cancelled")]_vars

\* C5 witness: a request was cancelled, and a later completion of another
\* request was handled and queued again while the cancelled one stayed put.
C5_Witness ==
    /\ Len(notified) >= 2
    /\ notified[1].status = "Cancelled"
    /\ notified[2].status = "Completed"
    /\ Len(handled) >= 1
    /\ inHandler = 0
    /\ requests[notified[1].req].status = "Cancelled"
    /\ requests[notified[2].req].status = "Queued"

\* C6 as claimed: requests exist only once acquire and configure have
\* succeeded, and queueRequest is called only while the camera is running.
C6_SetupBeforeUse ==
    /\ requests # <<>> => acquireRet = "ok" /\ configureRet = "ok"
    /\ \A k \in 1 .. Len(oplog) :
          oplog[k].op = "queueRequest" => oplog[k].cam = "Running"

\* C7 as claimed: whenever main() has returned after a successful acquire,
\* the camera has been released and the allocator is gone.
C7_TeardownOnEveryExit ==
    (pc = "done" /\ acquireRet = "ok") =>
        /\ camState = "Available"
        /\ allocator # "live"

\* C8 as claimed: a rejected configuration ends the session at the configure
\* step: main() returns failure there, with no allocator set up, no request
\* created and the camera not started.
C8_ConfigureFailureIsFatal ==
    configureRet = "fail" =>
        /\ pc = "done"
        /\ exitStatus = "EXIT_FAILURE"
        /\ exitAt = "configure"
        /\ allocator = "none"
        /\ allocRet = -2
        /\ requests = <<>>
        /\ startRet = "none"

\* C9 as claimed: when allocation fails or yields no buffer, the camera is
\* not started and the event loop is not run.
C9_NoBuffersNoStart ==
    allocRet \in {-1, 0} =>
        /\ startRet = "none"
        /\ pc \notin {"queue", "exec", "stop", "free", "release", "cmstop"}
        /\ loopRet = -1

\* C10: when the request loop has run to its end there are exactly as many
\* requests as buffers were allocated, the i-th bound to the i-th buffer and
\* nothing else, all Idle until the start-up loop queues them; when
\* createRequest or addBuffer fails, main() returns failure and no request
\* is ever queued.
C10_OneRequestPerBuffer ==
    /\ Len(requests) <= nbuffers \/ allocator = "deleted"
    /\ startRet # "none" => Len(requests) = allocRet
    /\ \A i \in 1 .. Len(requests) :
          /\ requests[i].buffers = <<i>>
          /\ i > qi => requests[i].status = "Idle"
    /\ exitAt \in {"createRequest", "addBuffer"} =>
          /\ exitStatus = "EXIT_FAILURE"
          /\ oplog = <<>>
          /\ startRet = "none"
          /\ Len(requests) < allocRet

\* C10 witness: the largest allocation, every request built, none queued yet.
C10_Witness ==
    /\ allocRet = MaxBuffers
    /\ Len(requests) = MaxBuffers
    /\ pc = "queue"
    /\ qi = 0

\* The requests that have buffer b bound.
BoundTo(b) ==
    {r \in 1 .. Len(requests) :
        \E k \in 1 .. Len(requests[r].buffers) : requests[r].buffers[k] = b}

\* C11: every allocated buffer is bound to at most one request, the buffers
\* no request holds are the pool's (those no request has been built for
\* yet), and no request holds a buffer twice or a buffer that was not
\* allocated.
C11_OneOwnerPerBuffer ==
    /\ \A b \in 1 .. MaxBuffers : Cardinality(BoundTo(b)) <= 1
    /\ \A b \in 1 .. MaxBuffers :
          BoundTo(b) = {} <=> (b > Len(requests) \/ allocRet < b)
    /\ \A r \in 1 .. Len(requests) :
          /\ Len(requests[r].buffers) = 1
          /\ requests[r].buffers[1] \in 1 .. allocRet

\* C11 witness: two requests, each submitted, completed, reused and queued
\* again.
C11_Witness ==
    /\ Len(requests) >= 2
    /\ Count(HandledReqs, 1) >= 1
    /\ Count(HandledReqs, 2) >= 1
    /\ inHandler = 0
    /\ requests[1].status = "Queued"
    /\ requests[2].status = "Queued"

\* C12: every queueRequest call, from main()'s start-up loop and from the
\* handler, is made on a request in the Idle state: one just built, or one
\* reused since it last completed.
C12_SubmitOnlyIdle ==
    \A k \in 1 .. Len(oplog) :
        oplog[k].op = "queueRequest" =>
           /\ oplog[k].from = "Idle"
           /\ \/ k <= qi
              \/ /\ k > 1
                 /\ oplog[k - 1].op = "reuse"
                 /\ oplog[k - 1].req = oplog[k].req

\* C12 witness: a request queued by the start-up loop has completed and has
\* been queued a second time by the handler.
C12_Witness ==
    /\ qi >= 1
    /\ \E k \in 1 .. Len(oplog) :
          /\ k > qi
          /\ oplog[k].op = "queueRequest"
          /\ oplog[k].ok
    /\ inHandler = 0

\* C13 as claimed: the loop's queue of pending calls never holds the same
\* request twice, also when the camera notifies a request that is already
\* waiting there.
C13_NoDuplicatePending ==
    \A i, j \in 1 .. Len(calls) : i # j => calls[i] # calls[j]

\* C14 as claimed: when main() returns after the event loop has run, it
\* returns success exactly when loop.exec() returned 0.
C14_ExitStatusFromLoop ==
    exitAt = "end" => (exitStatus = "EXIT_SUCCESS" <=> loopRet = 0)

\* C15 as claimed: when every queueRequest call was rejected, so that no
\* request is in flight, loop.exec() returns a non-zero status.
C15_AllRejectedLoopFails ==
    (/\ loopRet # -1
     /\ requests # <<>>
     /\ \A k \in 1 .. Len(oplog) :
           oplog[k].op = "queueRequest" => ~oplog[k].ok)
    => loopRet # 0

\* The clean-up calls of main(), in the order of the code.
FullTeardown == <<"stop", "free", "release", "cmstop">>

\* C16: once loop.exec() has been entered, main() eventually returns through
\* its clean-up, however many completions arrive and are queued again.
C16_Terminates ==
    (pc = "exec") ~>
        (pc = "done" /\ exitAt = "end" /\ timer = "fired" /\ loopRet = 0
         /\ tdlog = FullTeardown)

\* C16 witness: main() has returned through the clean-up after the timeout,
\* with requests handled and queued again and a call still pending in the loop.
C16_Witness ==
    /\ pc = "done"
    /\ exitAt = "end"
    /\ timer = "fired"
    /\ Len(handled) >= 2
    /\ calls # <<>>

\* Sequence s is an initial part of sequence t.
IsPrefix(s, t) ==
    /\ Len(s) <= Len(t)
    /\ \A k \in 1 .. Len(s) : s[k] = t[k]

\* C17: the clean-up calls are made in the order stop, free, release (then
\* cm->stop()), each once and only after loop.exec() has returned; the
\* allocator is never freed and the camera never released while the camera
\* is running, and on the normal exit all of them have been made.
C17_TeardownOrder ==
    /\ IsPrefix(tdlog, FullTeardown)
    /\ tdlog # <<>> => loopRet # -1
    /\ allocator = "deleted" =>
          /\ camState # "Running"
          /\ Len(tdlog) >= 2
    /\ Len(tdlog) >= 3 =>
          /\ camState = "Available"
          /\ allocator = "deleted"
    /\ exitAt = "end" =>
          /\ tdlog = FullTeardown
          /\ cmState = "stopped"

\* C17 witness: a normal exit of a session whose camera was running, with
\* requests still queued when camera->stop() was called.
C17_Witness ==
    /\ exitAt = "end"
    /\ startRet = "ok"
    /\ tdlog = FullTeardown
    /\ \E r \in 1 .. Len(requests) :
          /\ requests[r].status = "Cancelled"
          /\ Notified(r, "Cancelled")

\* C18: once loop.exec() has returned, no step calls reuse or queueRequest
\* or runs the handler, whatever the camera still notifies; and once main()
\* has returned no request changes any more.
C18_NoSubmitAfterLoop ==
    [][loopRet # -1 =>
          /\ oplog' = oplog
          /\ handled' = handled
          /\ inHandler' = 0
          /\ pc = "done" => requests' = requests]_vars

\* C18 witness: the clean-up has run while a completion notified by the
\* camera is still waiting in the loop, and camera->stop() cancelled another
\* request; neither was reused or queued again.
C18_Witness ==
    /\ pc = "done"
    /\ exitAt = "end"
    /\ calls # <<>>
    /\ requests[calls[1]].status = "Completed"
    /\ \E r \in 1 .. Len(requests) : requests[r].status = "Cancelled"

\* C19: when no camera is found, main() stops the camera manager and
\* returns failure, having acquired and configured nothing, set up no
\* allocator, built no request and not run the event loop.
C19_NoCameraExit ==
    exitAt = "nocamera" =>
        /\ pc = "done"
        /\ exitStatus = "EXIT_FAILURE"
        /\ cmState = "stopped"
        /\ camState = "Available"
        /\ acquireRet = "none"
        /\ configureRet = "none"
        /\ allocator = "none"
        /\ allocRet = -2
        /\ requests = <<>>
        /\ startRet = "none"
        /\ timer = "unarmed"
        /\ loopRet = -1

\* C19 witness: main() has returned through the no-camera exit.
C19_Witness ==
    /\ pc = "done"
    /\ exitAt = "nocamera"

\* The last n elements of sequence s.
Last(s, n) == SubSeq(s, Len(s) - n + 1, Len(s))

\* C20 as claimed: every listed name is the location's base name followed
\* by the camera id in parentheses, and for an External camera with a Model
\* the quoted model comes between the two, after "External camera".
C20_NameKeepsBase ==
    \A k \in 1 .. Len(names) :
        LET cam == catalog[k]
            id  == <<" (", cam.id, ")">>
        IN /\ Len(names[k]) >= 3
           /\ Last(names[k], 3) = id
           /\ cam.location = "Front" =>
                 names[k] = <<"Internal front camera">> \o id
           /\ cam.location = "Back" =>
                 names[k] = <<"Internal back camera">> \o id
           /\ (cam.location = "External" /\ cam.model = "none") =>
                 names[k] = <<"External camera">> \o id
           /\ (cam.location = "External" /\ cam.model # "none") =>
                 names[k] = <<"External camera", " '", cam.model, "'">> \o id

====
